---- MODULE Spec2Model ----
(***************************************************************************)
(* Profile API (src/main.py): a FastAPI service over two PostgreSQL        *)
(* tables, users and education, reached through SQLAlchemy ORM sessions.   *)
(*                                                                         *)
(* The handlers are plain `def` functions, which FastAPI runs on a thread  *)
(* pool, so requests overlap.  Each request owns one ORM session.  The     *)
(* database state below is the COMMITTED state (PostgreSQL, READ           *)
(* COMMITTED); a request's pending writes live in its session until its    *)
(* commit step applies them atomically, or rolls all of them back.         *)
(* A request is cut at the points where it reads committed state or        *)
(* commits: the SELECT of get_user_db, the bulk DELETE of update_user_db,  *)
(* each db.commit(), and the db.refresh() that builds the response.        *)
(***************************************************************************)
EXTENDS Integers, Sequences, FiniteSets, TLC

\* ---------------------------------------------------------------- bounds
\* Requests the service receives in one run.
MaxRequests == 3
\* The handlers are `def` functions: FastAPI runs them on pool threads, here two.
Threads == {"t1", "t2"}

\* ------------------------------------------------------- program constants
ScoreMin == 0
ScoreMax == 100
TestCountMin == 0
YearMin == 1900
YearMax == 2100

HTTP_200 == 200
HTTP_201 == 201
HTTP_204 == 204
HTTP_400 == 400
HTTP_404 == 404
HTTP_422 == 422
HTTP_500 == 500

\* Python's None / SQL NULL in a nullable text column or optional text field.
NULL == "NULL"

\* ------------------------------------------------------------ input values
Emails == {"a@x.com", "b@x.com"}
EduA == [degree |-> "BSc", institution |-> "MIT", year |-> 2020]
EduB == [degree |-> "MSc", institution |-> "ETH", year |-> 2023]
EduBad == [degree |-> "PhD", institution |-> "ETH", year |-> 2101]

\* ------------------------------------------------------------------ state
VARIABLES
    users,        \* table users: user_id -> row (the committed rows)
    education,    \* table education: the set of committed rows
    nextUserId,   \* the serial behind users.user_id
    nextEduId,    \* the serial behind education.education_id
    clock,        \* func.now(): a logical clock, one tick per writing commit
    reqs,         \* the requests the pool threads are handling, oldest first
    resp,         \* the response the last step sent, if it sent one
    started,      \* requests received so far
    deleted,      \* history: user ids whose DELETE request committed
    incDone       \* history: user_id -> increment-test requests answered 200

vars == <<users, education, nextUserId, nextEduId, clock, reqs, resp, started,
          deleted, incDone>>

db == <<users, education>>

\* A session that has loaded nothing.
NoRow == [user_id |-> 0, name |-> NULL, email |-> NULL, bio |-> NULL,
          location |-> NULL, score |-> 0, test_count |-> 0, phone_no |-> NULL,
          user_type |-> NULL, created_at |-> 0, updated_at |-> 0]

NoResponse == [op |-> "none", status |-> 0, body |-> <<>>]

Init ==
    /\ users = <<>>
    /\ education = {}
    /\ nextUserId = 1
    /\ nextEduId = 1
    /\ clock = 0
    /\ reqs = <<>>
    /\ resp = NoResponse
    /\ started = 0
    /\ deleted = {}
    /\ incDone = <<>>

\* ------------------------------------------------------ request payloads
\* class UserType(str, Enum): a member has a name and a value; the column
\* stores the value.
UserType == {[name |-> "STUDENT", value |-> "student"],
             [name |-> "PROFESSOR", value |-> "professor"],
             [name |-> "TEACHER", value |-> "teacher"]}

\* An Optional[...] field is the set of its values: {} for None, {v} for v.

\* UserProfileCreate bodies the clients send.
CreateInputs ==
    [name : {"Jane Doe"}, email : Emails, bio : {"bio1"}, location : {NULL},
     score : {0, 101}, test_count : {0}, phone_no : {NULL},
     user_type : {t \in UserType : t.name = "STUDENT"},
     education : {{}, {EduA}}]

\* UserProfileUpdate bodies: `vals` holds the fields sent with a value, `nulls`
\* the fields sent as an explicit null, `education` the optional payload.
\* Together DOMAIN vals and nulls are the fields model_dump(exclude_unset=True)
\* returns.
UpdateInputs ==
    {[vals |-> ("email" :> "b@x.com"), nulls |-> {}, education |-> {}],
     [vals |-> ("score" :> 101), nulls |-> {}, education |-> {}],
     [vals |-> <<>>, nulls |-> {"bio"}, education |-> {}],
     [vals |-> <<>>, nulls |-> {}, education |-> {EduB}],
     [vals |-> <<>>, nulls |-> {}, education |-> {EduBad}]}
      \cup {[vals |-> ("user_type" :> t), nulls |-> {}, education |-> {EduB}] :
               t \in {x \in UserType : x.name = "PROFESSOR"}}

ScoreInputs == {-1, 0, 100, 101}

ListInputs ==
    [user_type : {{}} \cup {{t} : t \in {x \in UserType : x.name = "PROFESSOR"}},
     skip : {0, 1}, limit : {0, 2}]

\* ------------------------------------------------------------ validation
\* EducationBase.year: Field(ge=1900, le=2100).
ValidEducation(e) == e.year >= YearMin /\ e.year <= YearMax

\* UserProfileBase: score Field(ge=0, le=100), test_count Field(ge=0).
ValidCreate(user) ==
    /\ user.score >= ScoreMin /\ user.score <= ScoreMax
    /\ user.test_count >= TestCountMin
    /\ \A e \in user.education : ValidEducation(e)

\* UserProfileUpdate: the same constraints on the fields that carry a value.
ValidUpdate(p) ==
    /\ "score" \in DOMAIN p.vals =>
          p.vals["score"] >= ScoreMin /\ p.vals["score"] <= ScoreMax
    /\ "test_count" \in DOMAIN p.vals => p.vals["test_count"] >= TestCountMin
    /\ \A e \in p.education : ValidEducation(e)

\* get_all_profiles: skip Query(ge=0), limit Query(ge=1, le=1000).
ValidList(q) == q.skip >= 0 /\ q.limit >= 1 /\ q.limit <= 1000

\* No range test on new_score, in the route or in update_score_db.
ScoreUnchecked(new_score) == TRUE

\* update_user_score: new_score Query(ge=0, le=100); update_score_db repeats
\* the test.
ScoreInRange(new_score) == new_score >= ScoreMin /\ new_score <= ScoreMax

\* --------------------------------------------------------------- storage
\* A users table created without the unique index on email.
EmailUniqueDropped(uid, email) == TRUE

\* users.email: unique=True.  A write of `email` into row `uid` passes when no
\* other committed row holds it.
EmailUnique(uid, email) ==
    \A v \in DOMAIN users : v # uid => users[v].email # email

\* User.__table_args__: the CheckConstraints a users row must pass.
ChecksHold(row) ==
    /\ row.score >= ScoreMin /\ row.score <= ScoreMax
    /\ row.test_count >= TestCountMin
    /\ row.user_type \in {"student", "professor", "teacher"}

\* education.user_id: ForeignKey("users.user_id"); the row must exist when an
\* education row is inserted.
ForeignKeyHolds(uid) == uid \in DOMAIN users

\* A relationship without cascade over a foreign key without ondelete.
CascadeOff(uid) == {}

\* ondelete="CASCADE" and cascade="all, delete-orphan": the education rows
\* that go with user `uid` when its row is deleted.
CascadeRows(uid) == {e \in education : e.user_id = uid}

EducationOf(ed, uid) == {e \in ed : e.user_id = uid}

\* UserProfileResponse (from_attributes): the row and its education rows.
ProfileView(us, ed, uid) ==
    [user |-> us[uid], education |-> EducationOf(ed, uid)]

NewEducationRow(id, uid, e, now) ==
    [education_id |-> id, user_id |-> uid, degree |-> e.degree,
     institution |-> e.institution, year |-> e.year, created_at |-> now]

\* ------------------------------------------------------------ ORM session
\* update_user_db's loop over update_data.items(): the attributes it sets.
\* A value of None is never set; a user_type is set to its .value.
Changes(p) ==
    [k \in DOMAIN p.vals |->
        IF k = "user_type" THEN p.vals[k].value ELSE p.vals[k]]

\* The unit of work writes only the attributes whose value differs from the
\* loaded one; with none, no UPDATE is issued.
Dirty(loaded, ch) == {k \in DOMAIN ch : ch[k] # loaded[k]}

\* UPDATE users SET <dirty columns>, updated_at = now() WHERE user_id = ...
\* (onupdate=func.now() on updated_at).
UpdatedRow(row, ch, D, now) ==
    [f \in DOMAIN row |->
        IF f \in D THEN ch[f]
        ELSE IF f = "updated_at" THEN now
        ELSE row[f]]

\* ------------------------------------------------------- request plumbing
\* A new request needs a free thread.
Accepts ==
    /\ started < MaxRequests
    /\ Len(reqs) < Cardinality(Threads)

\* The handler returns or raises: the response goes out and the thread is free.
Done(op, status, body) ==
    [op |-> op, pc |-> "done", status |-> status, body |-> body]

Response(rec) == [op |-> rec.op, status |-> rec.status, body |-> rec.body]

Running(op, pc, args) ==
    [op |-> op, pc |-> pc, args |-> args, loaded |-> NoRow, delIds |-> {}]

\* After its last commit a handler only re-reads its row by identifier.
Refreshing(req) == Running(req.op, "refresh", [user_id |-> req.args.user_id])

RemoveAt(seq, i) ==
    [j \in 1..(Len(seq) - 1) |-> IF j < i THEN seq[j] ELSE seq[j + 1]]

\* One step of the request reqs[r]: it goes on as `rec`, or ends with the
\* response `rec`.
Step(r, rec) ==
    IF rec.pc = "done"
    THEN /\ reqs' = RemoveAt(reqs, r)
         /\ resp' = Response(rec)
    ELSE /\ reqs' = [reqs EXCEPT ![r] = rec]
         /\ resp' = NoResponse

\* A request arrives and runs up to its first statement: FastAPI validates the
\* input (422 before the handler is called), then the handler's first read of
\* the committed state leaves the request as `rec`.
Receive(op, valid, rec) ==
    /\ Accepts
    /\ started' = started + 1
    /\ LET first == IF valid THEN rec ELSE Done(op, HTTP_422, <<>>) IN
       IF first.pc = "done"
       THEN /\ reqs' = reqs
            /\ resp' = Response(first)
       ELSE /\ reqs' = Append(reqs, first)
            /\ resp' = NoResponse
    /\ UNCHANGED <<users, education, nextUserId, nextEduId, clock, deleted,
                   incDone>>

At(r, op, pc) == reqs[r].op = op /\ reqs[r].pc = pc

\* The identifiers clients name: every one handed out so far and the next one.
UserIds == 1..nextUserId

\* get_user_db without its `if not user` test: the handler goes on with None
\* and dies on the first attribute it reads.
LookupUnchecked(op, args, pc) ==
    IF args.user_id \in DOMAIN users
    THEN [Running(op, pc, args) EXCEPT !.loaded = users[args.user_id]]
    ELSE Done(op, HTTP_500, <<>>)

\* get_user_db as the first statement of a handler: 404, or the row is loaded
\* into the session and the handler goes on at `pc`.
Lookup(op, args, pc) ==
    IF args.user_id \in DOMAIN users
    THEN [Running(op, pc, args) EXCEPT !.loaded = users[args.user_id]]
    ELSE Done(op, HTTP_404, <<>>)

\* ------------------------------------------------------ POST /profiles/
\* create_profile, create_user_db: the existence check by email.
CreateCheckOf(user) ==
    Receive("create", ValidCreate(user),
        IF \E v \in DOMAIN users : users[v].email = user.email
        THEN Done("create", HTTP_400, <<>>)
        ELSE Running("create", "insert", [user |-> user, user_id |-> 0]))

CreateCheck == \E user \in CreateInputs : CreateCheckOf(user)

\* create_user_db: db.add(db_user); db.commit().  The INSERT draws from the
\* serial whether or not the unique index accepts the row.
CreateInsert(r) ==
    /\ At(r, "create", "insert")
    /\ LET user == reqs[r].args.user
           id == nextUserId
           now == clock + 1
           row == [user_id |-> id, name |-> user.name, email |-> user.email,
                   bio |-> user.bio, location |-> user.location,
                   score |-> user.score, test_count |-> user.test_count,
                   phone_no |-> user.phone_no,
                   user_type |-> user.user_type.value,
                   created_at |-> now, updated_at |-> now]
       IN
       /\ nextUserId' = nextUserId + 1
       /\ IF EmailUnique(id, user.email) /\ ChecksHold(row)
          THEN /\ users' = users @@ (id :> row)
               /\ incDone' = incDone @@ (id :> 0)
               /\ clock' = now
               /\ Step(r, IF user.education # {}
                           THEN Running("create", "insertEdu",
                                        [user |-> user, user_id |-> id])
                           ELSE Running("create", "refresh",
                                        [user_id |-> id]))
          ELSE /\ Step(r, Done("create", HTTP_500, <<>>))
               /\ UNCHANGED <<users, incDone, clock>>
    /\ UNCHANGED <<education, nextEduId, started, deleted>>

\* create_user_db: db.refresh(db_user), then the Education row and the second
\* db.commit().
CreateInsertEdu(r) ==
    /\ At(r, "create", "insertEdu")
    /\ LET uid == reqs[r].args.user_id
           now == clock + 1
       IN
       IF ForeignKeyHolds(uid)
       THEN /\ \E e \in reqs[r].args.user.education :
                  education' = education \cup
                      {NewEducationRow(nextEduId, uid, e, now)}
            /\ nextEduId' = nextEduId + 1
            /\ clock' = now
            /\ Step(r, Refreshing(reqs[r]))
       ELSE /\ Step(r, Done("create", HTTP_500, <<>>))
            /\ UNCHANGED <<education, nextEduId, clock>>
    /\ UNCHANGED <<users, nextUserId, started, deleted, incDone>>

\* ------------------------------------------------------- GET /profiles/
Min(a, b) == IF a < b THEN a ELSE b

\* query.offset(skip).limit(limit).all() over the rows in the order `order`.
Window(order, skip, limit) ==
    LET n == Len(order) IN
    [i \in 1..(Min(skip + limit, n) - Min(skip, n)) |-> order[Min(skip, n) + i]]

\* get_all_profiles, get_users_db: filter, offset, limit.  The query has no
\* ORDER BY, so the rows come in an order the storage chooses.
ListProfilesOf(q) ==
        LET match == {v \in DOMAIN users :
                         \A t \in q.user_type : users[v].user_type = t.value}
            n == Cardinality(match)
        IN
        \E order \in [1..n -> match] :
            /\ \A i, j \in 1..n : i # j => order[i] # order[j]
            /\ Receive("list", ValidList(q),
                  Done("list", HTTP_200,
                      [i \in DOMAIN Window(order, q.skip, q.limit) |->
                          ProfileView(users, education,
                              Window(order, q.skip, q.limit)[i])]))

ListProfiles == \E q \in ListInputs : ListProfilesOf(q)

\* ---------------------------------------------- GET /profiles/{user_id}
\* get_profile, get_user_db, and the response built from the row.
GetProfileOf(uid) ==
    Receive("get", TRUE,
        IF Lookup("get", [user_id |-> uid], "found").pc = "found"
        THEN Done("get", HTTP_200, <<ProfileView(users, education, uid)>>)
        ELSE Lookup("get", [user_id |-> uid], "found"))

GetProfile == \E uid \in UserIds : GetProfileOf(uid)

\* db.refresh(db_user) after the last commit, and the response: the row must
\* still be there to be read.
Refresh(r) ==
    /\ reqs[r].pc = "refresh"
    /\ LET uid == reqs[r].args.user_id
           op == reqs[r].op
           ok == IF op = "create" THEN HTTP_201 ELSE HTTP_200
       IN
       /\ Step(r, IF uid \in DOMAIN users
                  THEN Done(op, ok, <<ProfileView(users, education, uid)>>)
                  ELSE Done(op, HTTP_500, <<>>))
       /\ incDone' = IF op = "increment" /\ uid \in DOMAIN users
                     THEN [incDone EXCEPT ![uid] = @ + 1]
                     ELSE incDone
    /\ UNCHANGED <<users, education, nextUserId, nextEduId, clock, started,
                   deleted>>

\* ---------------------------------------------- PUT /profiles/{user_id}
\* update_profile, update_user_db: get_user_db.
UpdateLookupOf(uid, p) ==
    Receive("update", ValidUpdate(p),
        Lookup("update", [user_id |-> uid, user |-> p],
               IF p.education # {} THEN "delEdu" ELSE "commit"))

UpdateLookup ==
    \E uid \in UserIds, p \in UpdateInputs : UpdateLookupOf(uid, p)

\* update_user_db: db.query(Education).filter(...).delete(): the rows the
\* statement finds are the committed ones; their removal is pending until the
\* commit.
UpdateDeleteEdu(r) ==
    /\ At(r, "update", "delEdu")
    /\ Step(r, [reqs[r] EXCEPT
          !.pc = "commit",
          !.delIds = {e.education_id :
                         e \in EducationOf(education, reqs[r].args.user_id)}])
    /\ UNCHANGED <<users, education, nextUserId, nextEduId, clock, started,
                   deleted, incDone>>

\* update_user_db: db.commit().  The flush issues the UPDATE of the dirty
\* columns (StaleDataError when the row is gone, IntegrityError on a duplicate
\* email), then the INSERT of the education row (IntegrityError when the user
\* is gone); any error rolls the whole transaction back.
UpdateCommit(r) ==
    /\ At(r, "update", "commit")
    /\ LET uid == reqs[r].args.user_id
           p == reqs[r].args.user
           ch == Changes(p)
           D == Dirty(reqs[r].loaded, ch)
           now == clock + 1
           updateOk == D = {} \/
                         /\ uid \in DOMAIN users
                         /\ "email" \in D => EmailUnique(uid, ch["email"])
                         /\ ChecksHold(UpdatedRow(users[uid], ch, D, now))
           writes == D # {} \/ p.education # {}
           insertOk == p.education = {} \/ ForeignKeyHolds(uid)
       IN
       IF updateOk /\ insertOk
       THEN /\ users' = IF D = {} THEN users
                        ELSE [users EXCEPT
                                 ![uid] = UpdatedRow(@, ch, D, now)]
            /\ IF p.education = {}
               THEN UNCHANGED <<education, nextEduId>>
               ELSE /\ \E e \in p.education :
                          education' =
                              {x \in education :
                                  x.education_id \notin reqs[r].delIds}
                                \cup {NewEducationRow(nextEduId, uid, e, now)}
                    /\ nextEduId' = nextEduId + 1
            /\ clock' = IF writes THEN now ELSE clock
            /\ Step(r, Refreshing(reqs[r]))
       ELSE /\ Step(r, Done("update", HTTP_500, <<>>))
            /\ nextEduId' = IF updateOk /\ p.education # {}
                            THEN nextEduId + 1 ELSE nextEduId
            /\ UNCHANGED <<users, education, clock>>
    /\ UNCHANGED <<nextUserId, started, deleted, incDone>>

\* ------------------------------------------- DELETE /profiles/{user_id}
\* delete_profile, delete_user_db: get_user_db.
DeleteLookupOf(uid) ==
    Receive("delete", TRUE, Lookup("delete", [user_id |-> uid], "commit"))

DeleteLookup == \E uid \in UserIds : DeleteLookupOf(uid)

\* delete_user_db: db.delete(db_user); db.commit().  The row goes together
\* with its education rows; a DELETE that matches no row is only a warning.
DeleteCommit(r) ==
    /\ At(r, "delete", "commit")
    /\ LET uid == reqs[r].args.user_id IN
       /\ users' = [v \in DOMAIN users \ {uid} |-> users[v]]
       /\ education' = education \ CascadeRows(uid)
       /\ deleted' = deleted \cup {uid}
    /\ clock' = IF reqs[r].args.user_id \in DOMAIN users
                THEN clock + 1 ELSE clock
    /\ Step(r, Done("delete", HTTP_204, <<>>))
    /\ UNCHANGED <<nextUserId, nextEduId, started, incDone>>

\* -------------------------- PATCH /profiles/{user_id}/increment-test
\* increment_test_count, increment_test_db: get_user_db.
IncrementLookupOf(uid) ==
    Receive("increment", TRUE,
        Lookup("increment", [user_id |-> uid], "commit"))

IncrementLookup == \E uid \in UserIds : IncrementLookupOf(uid)

\* increment_test_db: db_user.test_count += 1 on the loaded value.
IncrementedCount(loaded) == loaded.test_count + 1

\* increment_test_db: db.commit(): UPDATE users SET test_count = <loaded + 1>.
IncrementCommit(r) ==
    /\ At(r, "increment", "commit")
    /\ LET uid == reqs[r].args.user_id
           now == clock + 1
           ch == ("test_count" :> IncrementedCount(reqs[r].loaded))
       IN
       IF uid \in DOMAIN users
       THEN /\ users' = [users EXCEPT
                            ![uid] = UpdatedRow(@, ch, {"test_count"}, now)]
            /\ clock' = now
            /\ Step(r, Refreshing(reqs[r]))
       ELSE /\ Step(r, Done("increment", HTTP_500, <<>>))
            /\ UNCHANGED <<users, clock>>
    /\ UNCHANGED <<education, nextUserId, nextEduId, started, deleted,
                   incDone>>

\* ---------------------------- PATCH /profiles/{user_id}/update-score
\* update_user_score (new_score: Query(ge=0, le=100)), then update_score_db:
\* the range test again, then get_user_db.
ScoreLookupOf(uid, s) ==
    Receive("score", ScoreInRange(s),
        IF ScoreInRange(s)
        THEN Lookup("score", [user_id |-> uid, new_score |-> s], "commit")
        ELSE Done("score", HTTP_400, <<>>))

ScoreLookup ==
    \E uid \in UserIds, s \in ScoreInputs : ScoreLookupOf(uid, s)

\* update_score_db: db_user.score = new_score; db.commit().
ScoreCommit(r) ==
    /\ At(r, "score", "commit")
    /\ LET uid == reqs[r].args.user_id
           now == clock + 1
           ch == ("score" :> reqs[r].args.new_score)
           D == Dirty(reqs[r].loaded, ch)
       IN
       IF D = {} \/ (/\ uid \in DOMAIN users
                      /\ ChecksHold(UpdatedRow(users[uid], ch, D, now)))
       THEN /\ users' = IF D = {} THEN users
                        ELSE [users EXCEPT
                                 ![uid] = UpdatedRow(@, ch, D, now)]
            /\ clock' = IF D = {} THEN clock ELSE now
            /\ Step(r, Refreshing(reqs[r]))
       ELSE /\ Step(r, Done("score", HTTP_500, <<>>))
            /\ UNCHANGED <<users, clock>>
    /\ UNCHANGED <<education, nextUserId, nextEduId, started, deleted,
                   incDone>>

\* ------------------------------------------------------------ the service
Next ==
    \/ CreateCheck
    \/ ListProfiles
    \/ GetProfile
    \/ UpdateLookup
    \/ DeleteLookup
    \/ IncrementLookup
    \/ ScoreLookup
    \/ \E r \in DOMAIN reqs : CreateInsert(r)
    \/ \E r \in DOMAIN reqs : CreateInsertEdu(r)
    \/ \E r \in DOMAIN reqs : UpdateDeleteEdu(r)
    \/ \E r \in DOMAIN reqs : UpdateCommit(r)
    \/ \E r \in DOMAIN reqs : DeleteCommit(r)
    \/ \E r \in DOMAIN reqs : IncrementCommit(r)
    \/ \E r \in DOMAIN reqs : ScoreCommit(r)
    \/ \E r \in DOMAIN reqs : Refresh(r)

Spec == Init /\ [][Next]_vars

\* ================================================================ claims
EmailStored(email) == \E v \in DOMAIN users : users[v].email = email

\* The step ends the request reqs[r].
Answered(r) == reqs' = RemoveAt(reqs, r)

\* The step takes the request reqs[r] on to its refresh.
Committed(r) == Len(reqs') = Len(reqs) /\ reqs'[r].pc = "refresh"

\* C1: Create Profile with an email no stored user has adds exactly one user
\* row under a fresh identifier; with an email a stored user already has it
\* ends with 400 and leaves both tables as they were, also when the existence
\* check and the insert of two creates for one email interleave.
C1_CreateConflict ==
    [][/\ \A user \in CreateInputs :
            CreateCheckOf(user) /\ ValidCreate(user) /\ EmailStored(user.email)
              => resp'.status = HTTP_400 /\ db' = db /\ reqs' = reqs
       /\ \A r \in DOMAIN reqs :
            CreateInsert(r) =>
                IF EmailStored(reqs[r].args.user.email)
                THEN Answered(r) /\ resp'.status = HTTP_400 /\ db' = db
                ELSE /\ nextUserId \notin DOMAIN users \cup deleted
                     /\ DOMAIN users' = DOMAIN users \cup {nextUserId}
                     /\ \A v \in DOMAIN users : users'[v] = users[v]
                     /\ education' = education]_vars

\* C2: in every reachable state no two stored user rows have the same email.
C2_EmailsDistinct ==
    \A u, v \in DOMAIN users : u # v => users[u].email # users[v].email

\* An update that would have given a second row the email of another one was
\* turned down: with two rows stored and nothing deleted, an update can only
\* have ended in 500 on the unique index.
C2_Witness ==
    /\ resp.op = "update" /\ resp.status = HTTP_500
    /\ Cardinality(DOMAIN users) = 2 /\ deleted = {}
    /\ reqs = <<>>

InFlightOn(op, uid) ==
    \E r \in DOMAIN reqs : reqs[r].op = op /\ reqs[r].args.user_id = uid

\* C3: once n increment-test requests for a user have been answered 200, and
\* none is still running, the stored test_count is n larger than the value
\* the row was created with, whatever the interleaving.
C3_IncrementsCounted ==
    \A u \in DOMAIN users :
        ~InFlightOn("increment", u) => users[u].test_count = incDone[u]

\* C4: once Delete Profile has succeeded for a user, no get and no list
\* answers with it (a get of it ends 404) and no education row names it; no
\* education row ever names a user that is not stored; Delete Profile of an
\* identifier that is not stored ends 404 and changes nothing.
NoOrphans == \A e \in education : e.user_id \in DOMAIN users

DeletedGone ==
    \A u \in deleted : u \notin DOMAIN users /\ EducationOf(education, u) = {}

C4_DeleteCascade ==
    /\ NoOrphans /\ DeletedGone
    /\ [][/\ NoOrphans' /\ DeletedGone'
          /\ resp'.op \in {"get", "list"}
                => \A i \in DOMAIN resp'.body :
                      resp'.body[i].user.user_id \notin deleted
          /\ \A uid \in UserIds :
                /\ GetProfileOf(uid) /\ uid \in deleted
                     => resp'.status = HTTP_404
                /\ DeleteLookupOf(uid) /\ uid \notin DOMAIN users
                     => resp'.status = HTTP_404 /\ db' = db /\ reqs' = reqs
          /\ \A r \in DOMAIN reqs :
                DeleteCommit(r) /\ reqs[r].args.user_id \in DOMAIN users
                  => /\ resp'.status = HTTP_204
                     /\ reqs[r].args.user_id \in deleted'
                     /\ \A v \in DOMAIN users' : users'[v] = users[v]
                     /\ DOMAIN users' =
                           DOMAIN users \ {reqs[r].args.user_id}]_vars

\* A profile was created with its education row (two commits), deleted (the
\* third commit), and a get then ended 404 with no education row left.
C4_Witness ==
    /\ deleted = {1} /\ clock = 3 /\ nextEduId = 2
    /\ education = {} /\ users = <<>>
    /\ resp.op = "get" /\ resp.status = HTTP_404

\* C5: the education of a profile round-trips and is replaced, never merged:
\* after the create's education insert the user has exactly the one row of the
\* payload, after an update with an education payload exactly the one row of
\* the new payload, and so no user ever has more than one education row.
Payload(e) ==
    [degree |-> e.degree, institution |-> e.institution, year |-> e.year]

C5_EducationReplaced ==
    [][/\ \A r \in DOMAIN reqs :
            /\ CreateInsertEdu(r) /\ Committed(r)
                 => {Payload(e) : e \in EducationOf(education',
                                                    reqs[r].args.user_id)}
                       = reqs[r].args.user.education
            /\ UpdateCommit(r) /\ Committed(r)
                   /\ reqs[r].args.user.education # {}
                 => {Payload(e) : e \in EducationOf(education',
                                                    reqs[r].args.user_id)}
                       = reqs[r].args.user.education
       /\ \A u \in DOMAIN users' :
            Cardinality(EducationOf(education', u)) <= 1]_vars

\* C6: every stored score is within [0,100]; Update Score with new_score
\* outside [0,100] ends with the validation error at once, whether or not the
\* user exists, and changes nothing; with new_score inside, on a stored user,
\* it goes through, the stored score is new_score (written by this commit, or
\* already read as such), nothing else of the row but updated_at changes, and
\* the answer is 200.
ScoresInRange ==
    \A u \in DOMAIN users :
        users[u].score >= ScoreMin /\ users[u].score <= ScoreMax

SameBut(row1, row2, fields) ==
    \A f \in DOMAIN row1 : f \notin fields => row1[f] = row2[f]

NamesUser(uid, updates, scores) ==
    \/ GetProfileOf(uid)
    \/ DeleteLookupOf(uid)
    \/ IncrementLookupOf(uid)
    \/ \E p \in updates : UpdateLookupOf(uid, p)
    \/ \E s \in scores : ScoreLookupOf(uid, s)

C8_UpdateAppliesPresent ==
    [][\A r \in DOMAIN reqs :
          UpdateCommit(r) /\ Committed(r)
              /\ reqs[r].args.user_id \in DOMAIN users
            => LET uid == reqs[r].args.user_id
                   p == reqs[r].args.user
               IN
               /\ \A f \in DOMAIN p.vals :
                     users'[uid][f] =
                        IF f = "user_type" THEN p.vals[f].value
                        ELSE p.vals[f]
               /\ \A f \in p.nulls : users'[uid][f] = NULL
               /\ SameBut(users'[uid], users[uid],
                          DOMAIN p.vals \cup p.nulls \cup {"updated_at"})
               /\ p.education = {} => education' = education]_vars

\* C9: no committed state holds part of one operation's writes: a create with
\* an education payload never has its user row committed without its
\* education row.
C9_CreateAtomic ==
    \A r \in DOMAIN reqs :
        At(r, "create", "insertEdu")
            /\ reqs[r].args.user_id \in DOMAIN users
          => EducationOf(education, reqs[r].args.user_id) # {}

\* C10: created_at never changes; a commit of update, increment-test or
\* update-score that changes the database sets the user's updated_at to the
\* current clock value; a request answered with an error leaves the rows as
\* they were.
C10_Timestamps ==
    [][/\ \A u \in DOMAIN users \cap DOMAIN users' :
             users'[u].created_at = users[u].created_at
       /\ \A r \in DOMAIN reqs :
            /\ reqs[r].op \in {"update", "increment", "score"}
                   /\ reqs[r].pc = "commit" /\ Committed(r)
                   /\ db' # db
                 => users'[reqs[r].args.user_id].updated_at = clock'
            /\ Answered(r) /\ resp'.status >= HTTP_400
                 => users' = users]_vars
====
